---- MODULE Spec2Model ----
(***************************************************************************)
(* The annotation editing panel of src/EditAnnotations.cpp: one document   *)
(* tab, its slot for the editing panel, the annotation objects on the      *)
(* heap, the panel's list / selection / widgets, and the handlers the      *)
(* panel registers for its window and controls.                            *)
(***************************************************************************)
EXTENDS Integers, Sequences, FiniteSets, TLC

\* ------------------------------------------------------------------ bounds
\* annotations persisted in the document (returned by GetAnnotations)
MaxEngineAnnots == 1
\* annotations the view owns (DisplayModel::userAnnots)
MaxUserAnnots == 1
\* the annotations a panel lists, the document's and the view's together
MaxListLen == 2
\* the colour picker delivers indices 0 .. MaxColorIdx under Spec
MaxColorIdx == 1
\* the icon picker delivers indices 0 .. MaxIconIdx under Spec
MaxIconIdx == 1

\* ------------------------------------------------------------ small helpers
Min(a, b) == IF a < b THEN a ELSE b

Range(s) == {s[i] : i \in 1..Len(s)}

\* all sequences over S of length 0 .. n
RECURSIVE SeqsUpTo(_, _)
SeqsUpTo(S, n) ==
    IF n = 0 THEN {<<>>}
    ELSE LET shorter == SeqsUpTo(S, n - 1)
         IN shorter \cup {Append(s, x) : s \in {t \in shorter : Len(t) = n - 1}, x \in S}

\* the entries of s at the positions in P, in the order of s
RECURSIVE Pick(_, _)
Pick(s, P) ==
    IF s = <<>> THEN <<>>
    ELSE LET rest == Pick(Tail(s), {p - 1 : p \in P \ {1}})
         IN IF 1 \in P THEN <<Head(s)>> \o rest ELSE rest

\* the subsequences of s of length 0 .. n
SubSeqsUpTo(s, n) == {Pick(s, P) : P \in {Q \in SUBSET (1..Len(s)) : Cardinality(Q) <= n}}

\* --------------------------------------------------------- static tables
CR == "\r"
LF == "\n"

\* a null const char* (GetKnownColorName's "not found")
NullStr == "<nullptr>"

gAnnotationTypes ==
    <<"Text", "Free Text", "Stamp", "Caret", "Ink", "Square", "Circle", "Line", "Polygon">>

gTextIcons ==
    <<"Comment", "Help", "Insert", "Key", "NewParagraph", "Note", "Paragraph">>

gFileAttachmentUcons == <<"Graph", "Paperclip", "PushPin", "Tag">>

gSoundIcons == <<"Speaker", "Mic">>

gStampIcons ==
    <<"Approved", "AsIs", "Confidential", "Departmental", "Draft", "Experimental",
      "Expired", "Final", "ForComment", "ForPublicRelease", "NotApproved",
      "NotForPublicRelease", "Sold", "TopSecret">>

gColors ==
    <<"None", "Aqua", "Black", "Blue", "Fuchsia", "Gray", "Green", "Lime", "Maroon",
      "Navy", "Olive", "Orange", "Purple", "Red", "Silver", "Teal", "White", "Yellow">>

\* A COLORREF 0xAABBGGRR is the tuple <<AA, BB, GG, RR>> of its four bytes.
ColorUnset == <<254, 255, 255, 255>>

\* the table with the commented-out value of line 75 put back for maroon: it is
\* the value line 78 gives navy
gColorsValues_MaroonAsNavy ==
    << ColorUnset,
       <<255, 255, 255, 0>>, <<255, 0, 0, 0>>, <<255, 255, 0, 0>>, <<255, 255, 0, 255>>,
       <<255, 128, 128, 128>>, <<255, 0, 128, 0>>, <<255, 0, 255, 0>>, <<255, 128, 0, 0>>,
       <<255, 128, 0, 0>>, <<255, 0, 128, 128>>, <<255, 0, 165, 255>>, <<255, 128, 0, 128>>,
       <<255, 0, 0, 255>>, <<255, 192, 192, 192>>, <<255, 128, 128, 0>>,
       <<255, 255, 255, 255>>, <<255, 0, 255, 255>> >>

gColorsValues ==
    << ColorUnset,                 \* None
       <<255, 255, 255, 0>>,       \* aqua
       <<255, 0, 0, 0>>,           \* black
       <<255, 255, 0, 0>>,         \* blue
       <<255, 255, 0, 255>>,       \* fuchsia
       <<255, 128, 128, 128>>,     \* gray
       <<255, 0, 128, 0>>,         \* green
       <<255, 0, 255, 0>>,         \* lime
       <<255, 0, 0, 128>>,         \* maroon
       <<255, 128, 0, 0>>,         \* navy
       <<255, 0, 128, 128>>,       \* olive
       <<255, 0, 165, 255>>,       \* orange
       <<255, 128, 0, 128>>,       \* purple
       <<255, 0, 0, 255>>,         \* red
       <<255, 192, 192, 192>>,     \* silver
       <<255, 128, 128, 0>>,       \* teal
       <<255, 255, 255, 255>>,     \* white
       <<255, 0, 255, 255>> >>     \* yellow

gAnnotsWithColor ==
    {"Stamp", "Text", "FileAttachment", "Sound", "Caret", "FreeText", "Ink", "Line",
     "Square", "Circle", "Polygon", "PolyLine", "Highlight", "Underline", "StrikeOut",
     "Squiggly"}

\* dimof(gColorsValues)
nColors == Len(gColorsValues)

ColorSetAlpha(c, a) == <<a, c[2], c[3], c[4]>>

\* seqstrings::IdxToStr: the idx-th (0-based) string of a string table
IdxToStr(strs, idx) == strs[idx + 1]

GetKnownColorName(c) ==
    LET c2 == ColorSetAlpha(c, 255)
        hits == {i \in 1..(nColors - 1) : c2 = gColorsValues[i + 1]}
    IN IF hits = {} THEN NullStr
       ELSE IdxToStr(gColors, CHOOSE i \in hits : \A j \in hits : i <= j)

FindStringInArray(items, toFind, valIfNotFound) ==
    LET hits == {i \in 0..(Len(items) - 1) : items[i + 1] = toFind}
    IN IF hits = {} THEN valIfNotFound
       ELSE CHOOSE i \in hits : \A j \in hits : i <= j

DropDownItemsFromStringArray(strings) == strings

IsAnnotationTypeInArray(arr, toFind) == toFind \in arr

\* str::Str::Replace("\n", "\r\n") over a sequence of characters
RECURSIVE ReplaceLF(_)
ReplaceLF(s) ==
    IF s = <<>> THEN <<>>
    ELSE IF Head(s) = LF THEN <<CR, LF>> \o ReplaceLF(Tail(s))
    ELSE <<Head(s)>> \o ReplaceLF(Tail(s))

\* AppendPdfDate: gmtime + strftime("%Y-%m-%d %H:%M UTC"): the day, the hour and
\* the minute of the time stamp; its seconds are dropped
AppendPdfDate(secs) ==
    <<secs \div 86400, (secs % 86400) \div 3600, (secs % 3600) \div 60>>


\* ------------------------------------------------------- annotation objects
\* Annotation* annot = nullptr / an empty slot of the list
NoAnnot == 0
\* tab->editAnnotsWindow == nullptr
NoWindow == 0

\* the persisted fields of an annotation
\* rect is <<x, y, dx, dy>> in tenths of a unit
AnnotData(type, pageNo, author, modDate, popupId, contents, iconName, color, rect) ==
    [type |-> type, pageNo |-> pageNo, author |-> author, modDate |-> modDate,
     popupId |-> popupId, contents |-> contents, iconName |-> iconName, color |-> color,
     rect |-> rect]

\* what the document engine can hold: a text note with a two-line comment, a popup
\* (a type outside every allow-list) whose text already uses CR LF, a square
\* without contents whose colour is no palette entry
EngineCatalog ==
    << AnnotData("Text", 1, "ann", 3725, 7, <<"x", LF, "y">>, "Note", <<255, 0, 255, 255>>,
                 <<105, 207, 200, 155>>),
       AnnotData("Popup", 2, "", 0, -1, <<"x", CR, LF>>, "", <<255, 0, 0, 255>>, <<0, 0, 0, 0>>),
       AnnotData("Square", 3, "", 0, -1, <<>>, "", <<128, 1, 2, 3>>, <<-15, 0, 9, 21>>) >>

\* what the view can hold in userAnnots: a highlight, a stamp
UserCatalog ==
    << AnnotData("Highlight", 1, "", 0, -1, <<>>, "", <<255, 0, 255, 255>>, <<0, 0, 0, 0>>),
       AnnotData("Stamp", 2, "", 0, -1, <<"z">>, "Draft", ColorUnset, <<-4, 999, 10, 10>>) >>

\* an Annotation object: the data, pdf (set exactly for the annotations the engine
\* built from the file), isChanged, isDeleted
MkAnnot(d, pdf) ==
    [type |-> d.type, pageNo |-> d.pageNo, author |-> d.author, modDate |-> d.modDate,
     popupId |-> d.popupId, contents |-> d.contents, iconName |-> d.iconName,
     color |-> d.color, rect |-> d.rect, pdf |-> pdf, isChanged |-> FALSE,
     isDeleted |-> FALSE]

\* the content of a heap cell that holds no object
FreeCell ==
    [type |-> "", pageNo |-> 0, author |-> "", modDate |-> 0, popupId |-> -1,
     contents |-> <<>>, iconName |-> "", color |-> <<0, 0, 0, 0>>,
     rect |-> <<0, 0, 0, 0>>, pdf |-> FALSE, isChanged |-> FALSE, isDeleted |-> FALSE]

\* heap cells for Annotation objects: the view's and one panel's
MaxObjs == MaxUserAnnots + MaxEngineAnnots
ObjIds == 1..MaxObjs

\* Annotation::SetColor / SetIconName: store the value, mark the annotation changed
SetColor(a, c) == [a EXCEPT !.color = c, !.isChanged = TRUE]
SetIconName(a, name) == [a EXCEPT !.iconName = name, !.isChanged = TRUE]

\* ----------------------------------------------------------------- widgets
Widgets ==
    {"dropDownAdd", "listBox", "staticRect", "staticAuthor", "staticModificationDate",
     "staticPopup", "staticContents", "editContents", "staticIcon", "dropDownIcon",
     "staticColor", "dropDownColor", "buttonDelete", "buttonSavePDF"}

\* lines 581-590 without the SetIsVisible(false) of line 585
CreatedHidden_DeleteShown ==
    {"staticRect", "staticAuthor", "staticModificationDate", "staticPopup",
     "staticContents", "editContents", "staticIcon", "dropDownIcon", "staticColor",
     "dropDownColor"}

\* the widgets CreateMainLayout hides after creating them
CreatedHidden ==
    {"staticRect", "staticAuthor", "staticModificationDate", "staticPopup",
     "staticContents", "editContents", "staticIcon", "dropDownIcon", "staticColor",
     "dropDownColor", "buttonDelete"}

\* the widgets of a panel that does not exist
NoUI ==
    [visible |-> [w \in Widgets |-> FALSE],
     text |-> [w \in Widgets |-> <<>>],
     saveEnabled |-> FALSE,
     lbItems |-> <<>>, lbSel |-> -1,
     iconItems |-> <<>>, iconSel |-> -1,
     colorItems |-> <<>>, colorSel |-> -1]

VARIABLES
    tabIsFixed,     \* tab->AsFixed() is not null: the tab shows a fixed-layout document
    engineDoc,      \* the annotations persisted in the document, in engine order
    userAnnots,     \* dm->userAnnots: the view's annotation objects (heap ids)
    heap,           \* heap cell -> Annotation object
    live,           \* the heap cells that hold an object
    freeCount,      \* heap cell -> how often its current object was deleted
    windows,        \* the EditAnnotationsWindow objects that exist
    slot,           \* tab->editAnnotsWindow
    annotations,    \* w->annotations: heap ids, in list order
    annot,          \* w->annot: the selected annotation
    ui,             \* the panel's widgets
    hostCalls,      \* the calls the last handler made on its collaborators, in order
    lastEv,         \* the last event handled
    fault,          \* "none", or how the process left defined behaviour
    editCtrl,       \* a text-input control: hwnd, OnTextChanged, its text
    wndEvent        \* the WM_COMMAND the control's handler handled last

vars ==
    <<tabIsFixed, engineDoc, userAnnots, heap, live, freeCount, windows, slot, annotations, annot,
      ui, hostCalls, lastEv, fault, editCtrl, wndEvent>>

editVars == <<editCtrl, wndEvent>>
docVars == <<tabIsFixed, engineDoc, userAnnots>>
heapVars == <<heap, live, freeCount>>
panelVars == <<windows, slot, annotations, annot, ui>>



\* ------------------------------------------- the panel's display functions
\* Each takes the widgets u and the annotation a (a heap id, or NoAnnot) and
\* gives the widgets as the function leaves them.

SetIsVisible(u, w, isVisible) == [u EXCEPT !.visible[w] = isVisible]
SetText(u, w, s) == [u EXCEPT !.text[w] = s]

\* (int) of a double given in tenths: the fraction is cut off, towards zero
ToInt(v) == IF v >= 0 THEN v \div 10 ELSE -((-v) \div 10)

\* ShowAnnotationRect: no call of it is left in the file (line 380)
ShowAnnotationRect(u, a) ==
    LET isVisible == (a # NoAnnot)
        u1 == SetIsVisible(u, "staticRect", isVisible)
    IN IF ~isVisible THEN u1
       ELSE LET rect == heap[a].rect
            IN SetText(u1, "staticRect",
                       <<"Rect: ", ToString(ToInt(rect[1])), " ", ToString(ToInt(rect[2])), " ",
                         ToString(ToInt(rect[3])), " ", ToString(ToInt(rect[4]))>>)

ShowAnnotationAuthor(u, a) ==
    LET isVisible == (a # NoAnnot) /\ heap[a].author # ""
        u1 == SetIsVisible(u, "staticAuthor", isVisible)
    IN IF ~isVisible THEN u1
       ELSE SetText(u1, "staticAuthor", <<"Author: ", heap[a].author>>)

ShowAnnotationModificationDate(u, a) ==
    LET isVisible == (a # NoAnnot) /\ heap[a].modDate # 0
        u1 == SetIsVisible(u, "staticModificationDate", isVisible)
        d == AppendPdfDate(heap[a].modDate)
    IN IF ~isVisible THEN u1
       ELSE SetText(u1, "staticModificationDate",
                    <<"Date: ", ToString(d[1]), ToString(d[2]), ToString(d[3]), " UTC">>)

ShowAnnotationsPopup(u, a) ==
    LET popupId == IF a # NoAnnot THEN heap[a].popupId ELSE -1
        isVisible == popupId >= 0
        u1 == SetIsVisible(u, "staticPopup", isVisible)
    IN IF ~isVisible THEN u1
       ELSE SetText(u1, "staticPopup", <<"Popup: ", ToString(popupId), " 0 R">>)

\* line 281 as it would read with the test ShowAnnotationAuthor makes
ContentsIsVisible_NonEmpty(a) == (a # NoAnnot) /\ heap[a].contents # <<>>

ContentsIsVisible(a) == (a # NoAnnot)

\* lines 280-291 without the SetText of line 290
ShowAnnotationsContents_KeepText(u, a) ==
    LET isVisible == (a # NoAnnot)
    IN SetIsVisible(SetIsVisible(u, "staticContents", isVisible), "editContents", isVisible)

ShowAnnotationsContents(u, a) ==
    LET isVisible == ContentsIsVisible(a)
        u1 == SetIsVisible(u, "staticContents", isVisible)
        u2 == SetIsVisible(u1, "editContents", isVisible)
    IN IF ~isVisible THEN u2
       ELSE SetText(u2, "editContents", ReplaceLF(heap[a].contents))

\* the switch of lines 301-314: the icon table of an annotation type, <<>> for none
IconsForType(type) ==
    CASE type = "Text" -> gTextIcons
      [] type = "FileAttachment" -> gFileAttachmentUcons
      [] type = "Sound" -> gSoundIcons
      [] type = "Stamp" -> gStampIcons
      [] OTHER -> <<>>

\* the function returning before it hides the picker when nothing is selected
ShowAnnotationsIcon_ReturnOnNull(u, a) ==
    IF a = NoAnnot THEN u
    ELSE LET iconName == heap[a].iconName
             icons == IF iconName # "" THEN IconsForType(heap[a].type) ELSE <<>>
             isVisible == icons # <<>>
             u1 == SetIsVisible(u, "staticIcon", isVisible)
             u2 == SetIsVisible(u1, "dropDownIcon", isVisible)
         IN IF ~isVisible THEN u2
            ELSE [u2 EXCEPT !.iconItems = DropDownItemsFromStringArray(icons),
                            !.iconSel = FindStringInArray(icons, iconName, 0)]

ShowAnnotationsIcon(u, a) ==
    LET iconName == IF a # NoAnnot THEN heap[a].iconName ELSE ""
        icons == IF iconName # "" THEN IconsForType(heap[a].type) ELSE <<>>
        isVisible == icons # <<>>
        u1 == SetIsVisible(u, "staticIcon", isVisible)
        u2 == SetIsVisible(u1, "dropDownIcon", isVisible)
    IN IF ~isVisible THEN u2
       ELSE [u2 EXCEPT !.iconItems = DropDownItemsFromStringArray(icons),
                       !.iconSel = FindStringInArray(icons, iconName, 0)]

\* line 354 as it would read with the test ShowAnnotationsContents makes
ColorIsVisible_AnySelected(a) == (a # NoAnnot)

ColorIsVisible(a) ==
    LET annotType == IF a # NoAnnot THEN heap[a].type ELSE "Unknown"
    IN IsAnnotationTypeInArray(gAnnotsWithColor, annotType)

ShowAnnotationsColor(u, a) ==
    LET isVisible == ColorIsVisible(a)
        u1 == SetIsVisible(u, "staticColor", isVisible)
        u2 == SetIsVisible(u1, "dropDownColor", isVisible)
        colorName == GetKnownColorName(heap[a].color)
    IN IF ~isVisible THEN u2
       ELSE [u2 EXCEPT !.colorItems = DropDownItemsFromStringArray(gColors),
                       !.colorSel = FindStringInArray(gColors, colorName, 0)]

\* the scan of EnableSaveIfAnnotationsChanged over the list anns in the heap h
\* line 408 with && for ||
DidChange_Both(h, anns) == \E i \in 1..Len(anns) : h[anns[i]].isChanged /\ h[anns[i]].isDeleted

DidChange(h, anns) == \E i \in 1..Len(anns) : h[anns[i]].isChanged \/ h[anns[i]].isDeleted

EnableSaveIfAnnotationsChanged(u, h, anns) == [u EXCEPT !.saveEnabled = DidChange(h, anns)]

\* RebuildAnnotations: one list entry "page %d, <type name>" per annotation
RebuildAnnotations(h, anns) ==
    [i \in 1..Len(anns) |-> <<"page ", ToString(h[anns[i]].pageNo), ", ", h[anns[i]].type>>]

\* CreateMainLayout followed by RebuildAnnotations: the widgets of a new panel
CreateMainLayout(h, anns) ==
    [visible |-> [w \in Widgets |-> w \notin CreatedHidden],
     text |-> [w \in Widgets |->
                CASE w = "staticContents" -> <<"Contents:">>
                  [] w = "staticIcon" -> <<"Icon:">>
                  [] w = "staticColor" -> <<"Color:">>
                  [] w = "buttonDelete" -> <<"Delete annotation">>
                  [] w = "buttonSavePDF" -> <<"Save changes to PDF">>
                  [] OTHER -> <<>>],
     saveEnabled |-> FALSE,
     lbItems |-> RebuildAnnotations(h, anns), lbSel |-> -1,
     iconItems |-> <<>>, iconSel |-> -1,
     colorItems |-> DropDownItemsFromStringArray(gColors), colorSel |-> -1]


\* ------------------------------------------------------------------- heap
\* the n lowest heap cells that hold no object, in ascending order
RECURSIVE AllocIds(_, _)
AllocIds(used, n) ==
    IF n = 0 THEN <<>>
    ELSE LET id == CHOOSE i \in ObjIds \ used : \A j \in ObjIds \ used : i <= j
         IN <<id>> \o AllocIds(used \cup {id}, n - 1)

\* line 189 without the test of a->pdf
OwnedByPanel_All(h, a) == TRUE

\* line 189: the annotations the destructor deletes
OwnedByPanel(h, a) == h[a].pdf

\* the heap cells ~EditAnnotationsWindow deletes, one entry per delete
DeletedByDestructor(h, anns) == SelectSeq(anns, LAMBDA a : OwnedByPanel(h, a))

\* how often cell id occurs in the sequence s
Count(s, id) == Cardinality({i \in 1..Len(s) : s[i] = id})

\* ------------------------------------------------------------------- Init
\* ------------------------------------------------- the text-input control
MaxTextLen == 2

EN_CHANGE == 768
\* the codes an edit control notifies with (set focus, kill focus, change,
\* update) and the control ids in the low word
NotifyCodes == {256, 512, EN_CHANGE, 1024}
CtrlIds == {0, 768}
MAKEWPARAM(lo, hi) == lo + hi * 65536
HIWORD(wparam) == (wparam \div 65536) % 65536

\* w->OnTextChanged: not set, or a callback that marks its event handled, or
\* one that leaves it as it is
NoCallback == "none"
Callbacks == {"marks", "leaves"}

Texts == SeqsUpTo({"a", LF}, MaxTextLen)

NewEditCtrl == [hwnd |-> FALSE, OnTextChanged |-> NoCallback, text |-> <<>>]
NoEvent == [wparam |-> -1, didHandle |-> FALSE, calls |-> <<>>]

\* a notification of every code reaching the callback
NotifiesTextChanged_AnyCode(code) == TRUE

\* EN_CHANGE == code
NotifiesTextChanged(code) == EN_CHANGE = code

\* ~CopyWndEvent: the handled mark of the copy goes back to the event
CopyWndEventBack(ev, a) == [ev EXCEPT !.didHandle = a.didHandle]

\* HandleWM_COMMAND on the control w: the event as the handler leaves it, with
\* the texts the callback was called with in calls
HandleWM_COMMAND(w, ev) ==
    LET code == HIWORD(ev.wparam) IN
    IF NotifiesTextChanged(code) /\ w.OnTextChanged # NoCallback
    THEN LET a == [didHandle |-> w.OnTextChanged = "marks", text |-> w.text]
         IN  CopyWndEventBack([ev EXCEPT !.calls = Append(@, a.text)], a)
    ELSE ev

Init ==
    /\ tabIsFixed \in BOOLEAN
    /\ engineDoc \in SubSeqsUpTo(EngineCatalog, MaxEngineAnnots)
    /\ \E ud \in SubSeqsUpTo(UserCatalog, MaxUserAnnots) :
          /\ Len(engineDoc) + Len(ud) <= MaxListLen
          /\ ~tabIsFixed => engineDoc = <<>> /\ ud = <<>>
          /\ userAnnots = [i \in 1..Len(ud) |-> i]
          /\ heap = [id \in ObjIds |-> IF id <= Len(ud) THEN MkAnnot(ud[id], FALSE) ELSE FreeCell]
          /\ live = 1..Len(ud)
    /\ freeCount = [id \in ObjIds |-> 0]
    /\ windows = {}
    /\ slot = NoWindow
    /\ annotations = <<>>
    /\ annot = NoAnnot
    /\ ui = NoUI
    /\ hostCalls = <<>>
    /\ lastEv = "init"
    /\ fault = "none"
    /\ editCtrl = NewEditCtrl
    /\ wndEvent = NoEvent

\* ---------------------------------------------------------------- actions
\* line 637 without the test of the slot
HasEditWindow_Never == FALSE

\* line 637: the tab already has its panel
HasEditWindow == slot # NoWindow

\* the use of a panel that was deleted (line 638 on a slot left behind by
\* DeleteEditAnnotationsWindow, a second delete): the build stops ("crash") or
\* goes on with the freed memory ("uaf"); what the process does after that is
\* not modelled
DanglingOutcomes == {"crash", "uaf"}

\* lines 642-646 on a tab without a fixed-layout document: CrashIf(!dm) stops a
\* build that checks, another build returns at line 645
NotFixedOutcomes == {"crash", "none"}

\* StartEditAnnotations(tab)
StartEditAnnotations ==
    /\ fault = "none"
    /\ lastEv' = "open"
    /\ IF HasEditWindow
       THEN /\ fault' \in IF slot \in windows THEN {"none"} ELSE DanglingOutcomes
            /\ hostCalls' = IF fault' = "crash" THEN <<>> ELSE <<"BringWindowToTop">>
            /\ UNCHANGED <<docVars, editVars, heapVars, panelVars>>
       ELSE IF ~tabIsFixed
       THEN /\ fault' \in NotFixedOutcomes
            /\ hostCalls' = <<>>
            /\ UNCHANGED <<docVars, editVars, heapVars, panelVars>>
       ELSE LET n == Len(engineDoc)
                ids == AllocIds(live, n)
                annots == ids \o userAnnots
                h == [id \in ObjIds |->
                        IF \E i \in 1..n : ids[i] = id
                        THEN MkAnnot(engineDoc[CHOOSE i \in 1..n : ids[i] = id], TRUE)
                        ELSE heap[id]]
                win == CHOOSE w \in 1..2 : w \notin windows
            IN /\ Cardinality(ObjIds \ live) >= n
               /\ Cardinality(windows) < 2
               /\ heap' = h
               /\ live' = live \cup Range(ids)
               /\ freeCount' = [id \in ObjIds |-> IF id \in Range(ids) THEN 0 ELSE freeCount[id]]
               /\ windows' = windows \cup {win}
               /\ slot' = win
               /\ annotations' = annots
               /\ annot' = NoAnnot
               /\ ui' = CreateMainLayout(h, annots)
               /\ hostCalls' = <<"GetAnnotations", "CreateMainLayout", "RebuildAnnotations",
                                 "LayoutAndSizeToContent">>
               /\ UNCHANGED <<docVars, editVars, fault>>

\* WndCloseHandler -> CloseWindow -> ~EditAnnotationsWindow
CloseWindow ==
    /\ fault = "none"
    /\ slot \in windows
    /\ LET dead == DeletedByDestructor(heap, annotations)
       IN /\ heap' = [id \in ObjIds |-> IF id \in Range(dead) THEN FreeCell ELSE heap[id]]
          /\ live' = live \ Range(dead)
          /\ freeCount' = [id \in ObjIds |-> freeCount[id] + Count(dead, id)]
    /\ windows' = windows \ {slot}
    /\ slot' = NoWindow
    /\ annotations' = <<>>
    /\ annot' = NoAnnot
    /\ ui' = NoUI
    /\ hostCalls' = <<>>
    /\ lastEv' = "close"
    /\ UNCHANGED <<docVars, editVars, fault>>

\* the destructor run a second time on a deleted panel whose memory is as it was
\* left: line 191 deletes again the annotations it deleted the first time
DeletedAgain(fc, lv) ==
    [id \in ObjIds |-> IF id \notin lv /\ fc[id] >= 1 THEN fc[id] + 1 ELSE fc[id]]

\* DeleteEditAnnotationsWindow(w) for w the panel in the tab's slot: delete w
\* runs the destructor and leaves tab->editAnnotsWindow as it is; delete of a
\* null w does nothing.
DeleteEditAnnotationsWindow ==
    /\ fault = "none"
    /\ lastEv' = "destroy"
    /\ hostCalls' = <<>>
    /\ IF slot = NoWindow
       THEN UNCHANGED <<heapVars, panelVars, fault>>
       ELSE IF slot \notin windows
       THEN /\ fault' \in DanglingOutcomes
            /\ freeCount' \in {freeCount, DeletedAgain(freeCount, live)}
            /\ UNCHANGED <<heap, live, panelVars>>
       ELSE LET dead == DeletedByDestructor(heap, annotations)
            IN /\ heap' = [id \in ObjIds |-> IF id \in Range(dead) THEN FreeCell ELSE heap[id]]
               /\ live' = live \ Range(dead)
               /\ freeCount' = [id \in ObjIds |-> freeCount[id] + Count(dead, id)]
               /\ windows' = windows \ {slot}
               /\ annotations' = <<>>
               /\ annot' = NoAnnot
               /\ ui' = NoUI
               /\ UNCHANGED <<slot, fault>>
    /\ UNCHANGED <<docVars, editVars>>

\* line 376: the event carries an item
ItemSelected(itemNo) == itemNo >= 0

\* line 377 reading the entry after the one selected
ItemAt_OffByOne(itemNo) == annotations[Min(itemNo + 2, Len(annotations))]

\* line 377: w->annotations->at(itemNo), for itemNo inside the list
ItemAt(itemNo) == annotations[itemNo + 1]

\* lines 381-395: the detail controls and the delete button for the annotation a
ShowAnnotation(u0, a) ==
    LET u1 == ShowAnnotationAuthor(u0, a)
        u2 == ShowAnnotationModificationDate(u1, a)
        u3 == ShowAnnotationsPopup(u2, a)
        u4 == ShowAnnotationsContents(u3, a)
        u5 == ShowAnnotationsIcon(u4, a)
        u6 == ShowAnnotationsColor(u5, a)
    IN SetIsVisible(u6, "buttonDelete", a # NoAnnot)

\* ListBoxSelectionChanged for the indices the list box delivers: -1 for no
\* selection, or the index of one of its items
ListBoxSelectionChanged(itemNo) ==
    /\ fault = "none"
    /\ slot \in windows
    /\ itemNo < Len(annotations)
    /\ lastEv' = "select"
    /\ LET a == IF ItemSelected(itemNo) THEN ItemAt(itemNo) ELSE NoAnnot
       IN /\ annot' = a
          /\ ui' = ShowAnnotation([ui EXCEPT !.lbSel = itemNo], a)
          /\ hostCalls' = <<"LayoutAndSizeToContent">>
    /\ UNCHANGED <<docVars, editVars, heapVars, windows, slot, annotations, fault>>

\* line 435 reading the entry after the one chosen
PaletteValue_OffByOne(idx) == IF idx + 1 < nColors THEN gColorsValues[idx + 2] ELSE ColorUnset

\* lines 433-438: the colour of palette entry idx
PaletteValue(idx) == IF idx < nColors THEN gColorsValues[idx + 1] ELSE ColorUnset

DropDownColorSelectionChanged(idx) ==
    /\ fault = "none"
    /\ slot \in windows
    /\ ui.visible["dropDownColor"]
    /\ lastEv' = "color"
    /\ IF annot = NoAnnot
       THEN /\ fault' = "crash"
            /\ UNCHANGED <<heap, ui, hostCalls>>
       ELSE LET h == [heap EXCEPT ![annot] = SetColor(@, PaletteValue(idx))]
                u1 == [ui EXCEPT !.colorSel = idx]
            IN /\ heap' = h
               /\ ui' = EnableSaveIfAnnotationsChanged(u1, h, annotations)
               /\ hostCalls' = <<"SetColor", "EnableSaveIfAnnotationsChanged",
                                 "RerenderForWindowInfo">>
               /\ UNCHANGED fault
    /\ UNCHANGED <<docVars, editVars, live, freeCount, windows, slot, annotations, annot>>

DropDownIconSelectionChanged(idx) ==
    /\ fault = "none"
    /\ slot \in windows
    /\ ui.visible["dropDownIcon"]
    /\ idx < Len(ui.iconItems)
    /\ lastEv' = "icon"
    /\ IF annot = NoAnnot
       THEN /\ fault' = "crash"
            /\ UNCHANGED <<heap, ui, hostCalls>>
       ELSE LET h == [heap EXCEPT ![annot] = SetIconName(@, IdxToStr(ui.iconItems, idx))]
                u1 == [ui EXCEPT !.iconSel = idx]
            IN /\ heap' = h
               /\ ui' = EnableSaveIfAnnotationsChanged(u1, h, annotations)
               /\ hostCalls' = <<"SetIconName", "EnableSaveIfAnnotationsChanged",
                                 "RerenderForWindowInfo">>
               /\ UNCHANGED fault
    /\ UNCHANGED <<docVars, editVars, live, freeCount, windows, slot, annotations, annot>>

\* the click on "Save changes to PDF"; a disabled button is not clicked. The file
\* the engine writes is not part of the state.
ButtonSavePDFHandler ==
    /\ fault = "none"
    /\ slot \in windows
    /\ ui.visible["buttonSavePDF"] /\ ui.saveEnabled
    /\ hostCalls' = <<"EnginePdfSaveUpdated">>
    /\ lastEv' = "save"
    /\ UNCHANGED <<docVars, editVars, heapVars, panelVars, fault>>

\* the handler with the deletion it stands for done by marking the annotation
ButtonDeleteHandler_MarksDeleted ==
    /\ fault = "none"
    /\ slot \in windows
    /\ ui.visible["buttonDelete"]
    /\ heap' = [heap EXCEPT ![annot].isDeleted = TRUE]
    /\ hostCalls' = <<"MessageBoxNYI">>
    /\ lastEv' = "delete"
    /\ UNCHANGED <<docVars, editVars, live, freeCount, panelVars, fault>>

ButtonDeleteHandler ==
    /\ fault = "none"
    /\ slot \in windows
    /\ ui.visible["buttonDelete"]
    /\ hostCalls' = <<"MessageBoxNYI">>
    /\ lastEv' = "delete"
    /\ UNCHANGED <<docVars, editVars, heapVars, panelVars, fault>>

DropDownAddSelectionChanged ==
    /\ fault = "none"
    /\ slot \in windows
    /\ ui.visible["dropDownAdd"]
    /\ hostCalls' = <<"MessageBoxNYI">>
    /\ lastEv' = "add"
    /\ UNCHANGED <<docVars, editVars, heapVars, panelVars, fault>>

\* the sizes a WM_SIZE of the panel's window carries: none (minimized), some
SizeVals == {0, 520}

\* WndSizeHandler: a size with a zero side is left to the default handling, any
\* other is marked handled, repainted and laid out. The geometry of the layout
\* is not part of the state.
WndSizeHandler(dx, dy) ==
    /\ fault = "none"
    /\ slot \in windows
    /\ hostCalls' = IF dx = 0 \/ dy = 0 THEN <<>>
                    ELSE <<"ev->didHandle", "InvalidateRect", "LayoutToSize">>
    /\ lastEv' = "size"
    /\ UNCHANGED <<docVars, editVars, heapVars, panelVars, fault>>

\* EditCtrl::Create: a control whose window was created has its handlers
\* registered; a failed creation leaves it without them.
EditCreate(ok) ==
    /\ ~editCtrl.hwnd
    /\ editCtrl' = [editCtrl EXCEPT !.hwnd = ok]
    /\ UNCHANGED <<docVars, heapVars, panelVars, hostCalls, lastEv, fault, wndEvent>>

\* the client sets or clears the callback
SetOnTextChanged(cb) ==
    /\ editCtrl' = [editCtrl EXCEPT !.OnTextChanged = cb]
    /\ UNCHANGED <<docVars, heapVars, panelVars, hostCalls, lastEv, fault, wndEvent>>

\* the text of the control changes; a control without a window keeps the text
\* it is given as well
EditText(t) ==
    /\ editCtrl' = [editCtrl EXCEPT !.text = t]
    /\ UNCHANGED <<docVars, heapVars, panelVars, hostCalls, lastEv, fault, wndEvent>>

\* DispatchWM_COMMAND: a WM_COMMAND of the control reaches its handler
DispatchWM_COMMAND(wparam) ==
    /\ editCtrl.hwnd
    /\ wndEvent' = HandleWM_COMMAND(editCtrl,
                        [wparam |-> wparam, didHandle |-> FALSE, calls |-> <<>>])
    /\ UNCHANGED <<docVars, heapVars, panelVars, hostCalls, lastEv, fault, editCtrl>>

\* a call of ShowAnnotationRect(w, a) on the panel, from outside the file
CallShowAnnotationRect(a) ==
    /\ fault = "none"
    /\ slot \in windows
    /\ ui' = ShowAnnotationRect(ui, a)
    /\ hostCalls' = <<>>
    /\ lastEv' = "rect"
    /\ UNCHANGED <<docVars, editVars, heapVars, windows, slot, annotations, annot, fault>>

\* ----------------------------------------------------------- specifications
\* the indices the list box, the colour picker and the icon picker deliver
ListBoxIdxs == -1..(Len(annotations) - 1)
ColorIdxs == 0..Min(MaxColorIdx, nColors - 1)
IconIdxs == 0..MaxIconIdx

\* Open, Close and the events of the panel's controls
NextPanel ==
    \/ StartEditAnnotations
    \/ CloseWindow
    \/ \E i \in ListBoxIdxs : ListBoxSelectionChanged(i)
    \/ \E i \in ColorIdxs : DropDownColorSelectionChanged(i)
    \/ \E i \in IconIdxs : DropDownIconSelectionChanged(i)
    \/ ButtonSavePDFHandler
    \/ ButtonDeleteHandler
    \/ DropDownAddSelectionChanged
    \/ \E dx \in SizeVals, dy \in SizeVals : WndSizeHandler(dx, dy)

SpecPanel == Init /\ [][NextPanel]_vars

\* the same with the panel deleted from outside
Next ==
    \/ NextPanel
    \/ DeleteEditAnnotationsWindow

Spec == Init /\ [][Next]_vars


\* The same with ShowAnnotationRect, which is not static, called from outside
\* the file.
NextOutside ==
    \/ Next
    \/ \E a \in {NoAnnot} \cup Range(annotations) : CallShowAnnotationRect(a)

SpecOutside == Init /\ [][NextOutside]_vars

\* The colour picker with its whole palette, on a tab with at most one annotation.
InitPalette == Init /\ Len(engineDoc) + Len(userAnnots) <= 1

NextPalette ==
    \/ StartEditAnnotations
    \/ CloseWindow
    \/ \E i \in ListBoxIdxs : ListBoxSelectionChanged(i)
    \/ \E i \in 0..(nColors - 1) : DropDownColorSelectionChanged(i)

SpecPalette == InitPalette /\ [][NextPalette]_vars

\* The text-input control on its own, beside a tab without annotations.
InitEdit == Init /\ tabIsFixed /\ engineDoc = <<>> /\ userAnnots = <<>>

NextEdit ==
    \/ \E ok \in BOOLEAN : EditCreate(ok)
    \/ \E cb \in {NoCallback} \cup Callbacks : SetOnTextChanged(cb)
    \/ \E t \in Texts : EditText(t)
    \/ \E lo \in CtrlIds, hi \in NotifyCodes : DispatchWM_COMMAND(MAKEWPARAM(lo, hi))

SpecEdit == InitEdit /\ [][NextEdit]_vars

\* ------------------------------------------------------------------ claims
PanelOpen == slot \in windows /\ fault = "none"

Selected == annot # NoAnnot

\* C1: while the panel is open, the save button is enabled if and only if some
\* annotation of the panel's list is marked changed or deleted.
C1_SaveEnabledIffChanged ==
    PanelOpen => (ui.saveEnabled <=> DidChange(heap, annotations))

C3_ContentsHiddenWhenEmpty ==
    (PanelOpen /\ lastEv = "select") =>
        /\ ui.visible["editContents"] <=> (Selected /\ heap[annot].contents # <<>>)
        /\ ui.visible["staticContents"] <=> (Selected /\ heap[annot].contents # <<>>)

\* C3 as amended: after a list-selection event the contents editor and its label
\* are visible exactly when an annotation is selected, whether or not its contents
\* are empty, and the editor of a selected annotation without contents is empty.
C3_ContentsVisibleIffSelected ==
    (PanelOpen /\ lastEv = "select") =>
        /\ ui.visible["editContents"] <=> Selected
        /\ ui.visible["staticContents"] <=> Selected
        /\ (Selected /\ heap[annot].contents = <<>>) => ui.text["editContents"] = <<>>

C3_Witness ==
    /\ PanelOpen /\ lastEv = "select" /\ Selected
    /\ heap[annot].contents = <<>>
    /\ ui.visible["editContents"] /\ ui.visible["staticContents"]

\* the text with every line break (CR LF, a lone LF, a lone CR) as one CR LF
RECURSIVE NormalizeNewlines(_)
NormalizeNewlines(s) ==
    IF s = <<>> THEN <<>>
    ELSE IF Head(s) = CR /\ Len(s) >= 2 /\ s[2] = LF
         THEN <<CR, LF>> \o NormalizeNewlines(Tail(Tail(s)))
    ELSE IF Head(s) \in {CR, LF} THEN <<CR, LF>> \o NormalizeNewlines(Tail(s))
    ELSE <<Head(s)>> \o NormalizeNewlines(Tail(s))

\* C4: the text shown for a selected annotation with contents is the contents
\* with every line break as exactly one CR LF pair; contents that already use
\* CR LF are shown as they are, and normalizing the shown text changes nothing.
C4_NewlinesNormalizedOnce ==
    (PanelOpen /\ lastEv = "select" /\ Selected /\ heap[annot].contents # <<>>) =>
        /\ ui.text["editContents"] = NormalizeNewlines(heap[annot].contents)
        /\ ReplaceLF(ui.text["editContents"]) = ui.text["editContents"]

\* C5: after a list-selection event the colour label and the colour picker are
\* visible exactly when an annotation is selected and its type is in
\* gAnnotsWithColor, whatever its colour is.
C5_ColorVisibleIffTypeAllowed ==
    (PanelOpen /\ lastEv = "select") =>
        LET allowed == Selected /\ heap[annot].type \in gAnnotsWithColor
        IN /\ ui.visible["staticColor"] <=> allowed
           /\ ui.visible["dropDownColor"] <=> allowed

C5_Witness ==
    /\ PanelOpen /\ lastEv = "select" /\ Selected
    /\ heap[annot].type \notin gAnnotsWithColor
    /\ GetKnownColorName(heap[annot].color) = "Red"
    /\ ~ui.visible["staticColor"] /\ ~ui.visible["dropDownColor"]


\* C6: a colour-picker event with palette index k stores exactly gColorsValues[k]
\* on the selected annotation and marks it changed, leaves every other annotation,
\* the list and the selection as they were, and only then recomputes the save
\* button (now enabled) and asks the view to render again.
C6_ColorEditWritesPaletteValue ==
    [][lastEv' = "color" =>
        /\ Selected /\ fault' = "none"
        /\ ui'.colorSel \in 0..(nColors - 1)
        /\ heap' = [heap EXCEPT ![annot] =
                       [@ EXCEPT !.color = gColorsValues[ui'.colorSel + 1],
                                 !.isChanged = TRUE]]
        /\ annot' = annot /\ annotations' = annotations
        /\ ui'.saveEnabled
        /\ hostCalls' = <<"SetColor", "EnableSaveIfAnnotationsChanged",
                          "RerenderForWindowInfo">>]_vars

C6_Witness ==
    /\ PanelOpen /\ lastEv = "color" /\ Selected
    /\ ui.colorSel = 1
    /\ heap[annot].color = <<255, 255, 255, 0>> /\ heap[annot].isChanged
    /\ \E i \in 1..Len(annotations) : annotations[i] # annot /\ ~heap[annotations[i]].isChanged
    /\ ui.saveEnabled

\* C7: the name table and the value table of the palette have the same length,
\* the values of the entries 1 .. n-1 differ from each other once their alpha is
\* 0xff, and after picking entry k >= 1 the name GetKnownColorName gives for the
\* annotation's colour is the name of entry k.
C7_PaletteRoundTrip ==
    /\ Len(gColors) = Len(gColorsValues)
    /\ \A i, j \in 1..(nColors - 1) :
          ColorSetAlpha(gColorsValues[i + 1], 255) = ColorSetAlpha(gColorsValues[j + 1], 255)
              => i = j
    /\ (PanelOpen /\ lastEv = "color" /\ ui.colorSel >= 1) =>
          GetKnownColorName(heap[annot].color) = IdxToStr(gColors, ui.colorSel)

C7_Witness ==
    /\ PanelOpen /\ lastEv = "color" /\ ui.colorSel = nColors - 1
    /\ GetKnownColorName(heap[annot].color) = "Yellow"

\* C8 as claimed: the tab has at most one panel and its slot refers to it exactly
\* while it exists; Open on a tab that has a panel only brings it to the front
\* (no window is created, no annotation is collected, the panel is as it was),
\* Open on a tab without a panel creates one panel and stores it in the slot.
C8_OnePanelPerTab ==
    /\ [](Cardinality(windows) <= 1)
    /\ [](IF slot = NoWindow THEN windows = {} ELSE windows = {slot})
    /\ [][lastEv' = "open" =>
            IF slot # NoWindow
            THEN /\ hostCalls' = <<"BringWindowToTop">>
                 /\ UNCHANGED <<heapVars, panelVars>>
            ELSE /\ Cardinality(windows') = Cardinality(windows) + 1
                 /\ slot' \in windows' \ windows]_vars

\* C8 as amended: the same, with Open on a tab without a panel creating one
\* panel and storing it in the slot when the tab shows a fixed-layout document,
\* and creating nothing and leaving the slot empty when it does not.
C8_OnePanelPerFixedTab ==
    /\ [](Cardinality(windows) <= 1)
    /\ [](IF slot = NoWindow THEN windows = {} ELSE windows = {slot})
    /\ [](~tabIsFixed => slot = NoWindow)
    /\ [][lastEv' = "open" =>
            IF slot # NoWindow
            THEN /\ hostCalls' = <<"BringWindowToTop">>
                 /\ UNCHANGED <<heapVars, panelVars>>
            ELSE IF tabIsFixed
            THEN /\ Cardinality(windows') = Cardinality(windows) + 1
                 /\ slot' \in windows' \ windows
                 /\ hostCalls'[1] = "GetAnnotations"
            ELSE /\ hostCalls' = <<>>
                 /\ UNCHANGED <<heapVars, panelVars>>]_vars

C8_Witness ==
    /\ tabIsFixed
    /\ slot # NoWindow /\ windows = {slot}
    /\ lastEv = "open" /\ hostCalls = <<"BringWindowToTop">>
    /\ Selected

\* the heap cells that hold the view's annotations
UserCells == Range(userAnnots)

\* C9: Close clears the slot and deletes each annotation the engine built for
\* the panel exactly once and no annotation of the view: no cell is ever deleted
\* twice, the view's annotations stay alive and are never deleted, and while no
\* panel exists nothing but the view's annotations is alive; the annotations
\* deleted are the ones with pdf set.
C9_CloseReleasesOwnedOnly ==
    /\ lastEv = "close" => slot = NoWindow
    /\ \A id \in ObjIds : freeCount[id] <= 1
    /\ \A id \in UserCells : id \in live /\ freeCount[id] = 0 /\ ~heap[id].pdf
    /\ \A id \in live \ UserCells : heap[id].pdf
    /\ slot = NoWindow => live = UserCells
    /\ lastEv = "close" =>
          Cardinality({id \in ObjIds \ live : freeCount[id] = 1}) = Len(engineDoc)

C9_Witness ==
    /\ lastEv = "close" /\ slot = NoWindow
    /\ engineDoc # <<>> /\ userAnnots # <<>>
    /\ \E id \in ObjIds \ live : freeCount[id] = 1
    /\ \E id \in UserCells : id \in live /\ heap[id].isChanged

\* the widgets that are visible
VisibleWidgets == {w \in Widgets : ui.visible[w]}

\* C10 as claimed: while no annotation is selected only the add-dropdown and the
\* list are visible.
C10_OnlyAddAndListWithoutSelection ==
    (PanelOpen /\ ~Selected) => VisibleWidgets = {"dropDownAdd", "listBox"}

\* what the panel shows for the selected annotation a
VisibleFor(a) ==
    {"dropDownAdd", "listBox", "buttonSavePDF", "buttonDelete", "staticContents",
     "editContents"}
        \cup (IF a.author # "" THEN {"staticAuthor"} ELSE {})
        \cup (IF a.modDate # 0 THEN {"staticModificationDate"} ELSE {})
        \cup (IF a.popupId >= 0 THEN {"staticPopup"} ELSE {})
        \cup (IF a.iconName # "" /\ a.type \in {"Text", "FileAttachment", "Sound", "Stamp"}
              THEN {"staticIcon", "dropDownIcon"} ELSE {})
        \cup (IF a.type \in gAnnotsWithColor THEN {"staticColor", "dropDownColor"} ELSE {})

\* C10 as amended: the panel has two observable states. While no annotation is
\* selected (after Open, after a selection event with a negative index) exactly
\* the add-dropdown, the list and the save button are visible. While an
\* annotation is selected these three, the delete button, the contents label and
\* the contents editor are visible, the author, date, popup, icon and colour
\* widgets are visible as their rules say, and the rect display is hidden.
C10_TwoObservableStates ==
    PanelOpen =>
        IF Selected THEN VisibleWidgets = VisibleFor(heap[annot])
        ELSE VisibleWidgets = {"dropDownAdd", "listBox", "buttonSavePDF"}

C10_Witness ==
    /\ PanelOpen /\ lastEv = "select" /\ ~Selected
    /\ ui.text["editContents"] # <<>>
    /\ VisibleWidgets = {"dropDownAdd", "listBox", "buttonSavePDF"}


\* what the six recomputed property widgets show for the selected annotation b:
\* each of them is hidden, or visible with the value of b
ShowsOnly(b) ==
    /\ ui.visible["staticAuthor"] <=> b.author # ""
    /\ ui.visible["staticAuthor"] => ui.text["staticAuthor"] = <<"Author: ", b.author>>
    /\ ui.visible["staticModificationDate"] <=> b.modDate # 0
    /\ ui.visible["staticModificationDate"] =>
          ui.text["staticModificationDate"] =
              <<"Date: ", ToString(b.modDate \div 86400),
                ToString((b.modDate % 86400) \div 3600),
                ToString((b.modDate % 3600) \div 60), " UTC">>
    /\ ui.visible["staticPopup"] <=> b.popupId >= 0
    /\ ui.visible["staticPopup"] =>
          ui.text["staticPopup"] = <<"Popup: ", ToString(b.popupId), " 0 R">>
    /\ ui.visible["editContents"] /\ ui.visible["staticContents"]
    /\ ui.text["staticContents"] = <<"Contents:">>
    /\ Len(ui.text["editContents"]) >= Len(b.contents)
    /\ SelectSeq(ui.text["editContents"], LAMBDA c : c # CR)
          = SelectSeq(b.contents, LAMBDA c : c # CR)
    /\ ui.visible["dropDownIcon"] <=>
          (b.iconName # "" /\ b.type \in {"Text", "FileAttachment", "Sound", "Stamp"})
    /\ ui.visible["staticIcon"] <=> ui.visible["dropDownIcon"]
    /\ ui.visible["dropDownIcon"] =>
          /\ ui.iconSel \in 0..(Len(ui.iconItems) - 1)
          /\ b.iconName \in Range(ui.iconItems) => ui.iconItems[ui.iconSel + 1] = b.iconName
    /\ ui.visible["dropDownColor"] <=> b.type \in gAnnotsWithColor
    /\ ui.visible["staticColor"] <=> ui.visible["dropDownColor"]
    /\ ui.visible["dropDownColor"] =>
          /\ ui.colorItems = gColors
          /\ ui.colorSel \in 0..(nColors - 1)
          /\ ui.colorSel >= 1 =>
                ColorSetAlpha(gColorsValues[ui.colorSel + 1], 255) = ColorSetAlpha(b.color, 255)

\* while nothing is selected the property widgets are all hidden
ShowsNothing ==
    \A w \in {"staticRect", "staticAuthor", "staticModificationDate", "staticPopup",
              "staticContents", "editContents", "staticIcon", "dropDownIcon",
              "staticColor", "dropDownColor"} : ~ui.visible[w]

\* C11 as claimed: after a list-selection event every property widget is hidden
\* or shows the value of the annotation now selected, every widget whose field
\* is applicable and present is visible, and the rect display is visible for
\* any selected annotation.
C11_WidgetsFollowSelectionWithRect ==
    (PanelOpen /\ lastEv = "select") =>
        IF Selected THEN ShowsOnly(heap[annot]) /\ ui.visible["staticRect"]
        ELSE ShowsNothing

\* C11 as amended: after a list-selection event the author, modification date,
\* popup, contents, icon and colour widgets are recomputed from the annotation
\* now selected alone (each is hidden, or visible with its value; each whose
\* field is applicable and present is visible; none shows a value of the
\* annotation selected before); the rect display is not recomputed and stays
\* hidden for every selection.
C11_WidgetsFollowSelection ==
    (PanelOpen /\ lastEv = "select") =>
        IF Selected THEN ShowsOnly(heap[annot]) /\ ~ui.visible["staticRect"]
        ELSE ShowsNothing

\* a second selection: the hidden author display still holds the text of the
\* annotation selected before, the contents editor shows the text of this one
C11_Witness ==
    /\ PanelOpen /\ lastEv = "select" /\ Selected
    /\ heap[annot].author = "" /\ ~ui.visible["staticAuthor"]
    /\ ui.text["staticAuthor"] = <<"Author: ", "ann">>
    /\ heap[annot].contents # <<>>
    /\ ui.visible["editContents"] /\ ~ui.visible["staticRect"]


\* the palette entry whose value is the colour c, 0 when there is none
PaletteIdxOf(c) ==
    LET hits == {i \in 0..(nColors - 1) : gColorsValues[i + 1] = c}
    IN IF hits = {} THEN 0 ELSE CHOOSE i \in hits : \A j \in hits : i <= j

\* the entry of the icon table of type t whose name is name, 0 when there is none
IconIdxOf(t, name) ==
    LET hits == {i \in 0..(Len(IconsForType(t)) - 1) : IconsForType(t)[i + 1] = name}
    IN IF hits = {} THEN 0 ELSE CHOOSE i \in hits : \A j \in hits : i <= j

\* C12: while the colour picker (the icon picker) is shown, its selection is the
\* entry of the table that matches the colour (the icon name) of the selected
\* annotation and entry 0 when none matches; an annotation whose colour is the
\* value of the 'None' entry or no palette value is shown with entry 0; the
\* selection is never -1 or outside the table.
C12_PickerShowsMatchingEntry ==
    (PanelOpen /\ Selected) =>
        /\ ui.visible["dropDownColor"] =>
              /\ ui.colorSel \in 0..(nColors - 1)
              /\ ui.colorSel = PaletteIdxOf(heap[annot].color)
        /\ ui.visible["dropDownIcon"] =>
              /\ ui.iconSel \in 0..(Len(ui.iconItems) - 1)
              /\ ui.iconSel = IconIdxOf(heap[annot].type, heap[annot].iconName)


\* the changed and deleted markers of the annotations of the list
Markers(h) == [i \in 1..Len(annotations) |->
                  <<h[annotations[i]].isChanged, h[annotations[i]].isDeleted>>]

\* C13: while a panel exists its selected annotation changes only in a
\* list-selection event; icon edit, colour edit, add, delete, Save and resize
\* events leave the selected annotation and the list as they were, and add and
\* delete also leave every annotation's markers and the save button's enabled
\* state as they were.
C13_OnlySelectionChangesSelection ==
    [][/\ (slot \in windows /\ slot' = slot /\ windows' = windows /\ annot' # annot) =>
             lastEv' = "select"
       /\ lastEv' \in {"icon", "color", "add", "delete", "save", "size"} =>
             /\ annot' = annot
             /\ annotations' = annotations
             /\ \A i \in 1..Len(annotations) : annotations[i] \in live'
       /\ lastEv' \in {"add", "delete"} =>
             /\ Markers(heap') = Markers(heap)
             /\ ui'.saveEnabled = ui.saveEnabled
             /\ hostCalls' = <<"MessageBoxNYI">>]_vars

C13_Witness ==
    /\ PanelOpen /\ lastEv = "delete" /\ Selected
    /\ heap[annot].isChanged /\ ~heap[annot].isDeleted
    /\ ui.saveEnabled
    /\ Len(annotations) >= 2


\* C14: a WM_COMMAND of the text-input control calls the registered callback
\* once, with the control's text, when its code is EN_CHANGE and a callback is
\* registered, and not at all otherwise; the notification is reported handled
\* when the callback marked it handled and is left unhandled when not.
C14_TextChangedOncePerEnChange ==
    [][(editCtrl' = editCtrl /\ wndEvent' # NoEvent) =>
          LET code == (wndEvent'.wparam \div 65536) % 65536
              called == code = 768 /\ editCtrl.OnTextChanged # NoCallback
          IN  /\ wndEvent'.calls = IF called THEN <<editCtrl.text>> ELSE <<>>
              /\ wndEvent'.didHandle = (called /\ editCtrl.OnTextChanged = "marks")]_vars

C14_Witness ==
    /\ wndEvent # NoEvent
    /\ HIWORD(wndEvent.wparam) = EN_CHANGE
    /\ Len(editCtrl.text) = MaxTextLen
    /\ wndEvent.calls = <<editCtrl.text>>
    /\ wndEvent.didHandle


\* C15: an icon-edit or colour-edit event is delivered only while an annotation
\* is selected, so neither handler dereferences an empty selection: the two
\* pickers are hidden in a new panel, visible only after a selection event that
\* selected an annotation of a type they apply to, hidden again after a
\* selection event that cleared the selection, and the index of a colour-edit
\* event is within 0 .. nColors - 1.
C15_PickersOnlyWithSelection ==
    /\ lastEv \in {"icon", "color"} => fault = "none"
    /\ slot \in windows =>
          /\ (lastEv = "open" /\ hostCalls # <<"BringWindowToTop">>) =>
                ~ui.visible["dropDownIcon"] /\ ~ui.visible["dropDownColor"]
          /\ (lastEv = "select" /\ ~Selected) =>
                ~ui.visible["dropDownIcon"] /\ ~ui.visible["dropDownColor"]
          /\ ui.visible["dropDownIcon"] =>
                /\ Selected
                /\ heap[annot].type \in {"Text", "FileAttachment", "Sound", "Stamp"}
                /\ ui.lbSel >= 0
          /\ ui.visible["dropDownColor"] =>
                /\ Selected
                /\ heap[annot].type \in gAnnotsWithColor
                /\ ui.lbSel >= 0
          /\ lastEv \in {"icon", "color"} => Selected /\ annot \in live
          /\ lastEv = "color" => ui.colorSel \in 0..(nColors - 1)

C15_Witness ==
    /\ PanelOpen /\ lastEv = "icon" /\ Selected
    /\ heap[annot].isChanged
    /\ ui.visible["dropDownIcon"] /\ ui.visible["dropDownColor"]
    /\ ui.iconSel >= 1

====
